---- MODULE Spec2Model ----
(***************************************************************************)
(* RabbitMQRelayPlugin (src/src/services/rabbitmqRelayPlugin.ts) as a      *)
(* state machine.                                                          *)
(*                                                                         *)
(* One adapter instance is modelled as a record ("world"): its fields, the *)
(* broker's handles, the init() and relay() calls in flight (each with its *)
(* locals and a tally of the broker and handle calls it has made), and     *)
(* `last`, the call that ran most recently, with the trace of the calls it *)
(* made on amqplib, fs, the logger and the tracer in that segment and its  *)
(* promise's outcome.  init() suspends at its two awaits (connect,         *)
(* createChannel); relay() runs synchronously up to the send and suspends  *)
(* only at `await Promise.reject(error)` in its catch block.  Every action *)
(* is one run-to-completion segment between two suspension points.         *)
(*                                                                         *)
(* Environment: connect, createChannel, sendToQueue and fs.readFileSync    *)
(* may fail; logger.log, logger.error, apm.startTransaction and            *)
(* apm.startSpan may throw and the two tracer calls may return null.  The  *)
(* handles' end() return normally.                                         *)
(***************************************************************************)
EXTENDS Integers, Sequences, FiniteSets, TLC

\* Bound of the model: how many calls of init() and relay() a run makes.
MaxCalls == 3

\* `undefined` for the optional handle fields (lines 14-15); handles are 1, 2, ...
Undefined == 0
NoValue == "undefined"
NoError == "none"

PluginName == "RabbitMQRelayPlugin"
NotInitializedError == "RabbitMQ connection is not initialized"
TlsCaRequiredError == "TLS certificate (RABBITMQ_TLS_CA) is required in non-development environments"

\* Errors of the environment.
ConnectErrors == {"ECONNREFUSED"}
CreateChannelErrors == {"Channel ended, no reply will be forthcoming"}
SendErrors == {"Send failed"}
ReadFileError == "ENOENT"
LoggerFault == "logger.log threw"
LoggerErrorFault == "logger.error threw"
TracerFault == "apm threw"

\* The configuration validateProcessorConfig returns (line 21, config.ts).
Configuration(nodeEnv, ca) ==
  [ nodeEnv |-> nodeEnv,
    DESTINATION_TRANSPORT_URL |-> "amqp://localhost:5672",
    PRODUCER_STREAM |-> "test-queue",
    RABBITMQ_TLS_CA |-> ca ]

Configurations ==
  { Configuration("dev", NoValue),
    Configuration("dev", "ca-file-path.pem"),
    Configuration("production", NoValue),
    Configuration("production", "ca-file-path.pem"),
    Configuration("production", "missing.pem") }

\* fs.readFileSync(path, 'utf-8') (line 53): the one CA file that exists.
ReadFileSync(path) ==
  IF path = "ca-file-path.pem"
    THEN [ok |-> TRUE, value |-> "CA-FAKE-CONTENT", error |-> NoError]
    ELSE [ok |-> FALSE, value |-> NoValue, error |-> ReadFileError]

\* !this.configuration.RABBITMQ_TLS_CA (line 49): undefined and '' are falsy.
Falsy(value) == value \in {NoValue, ""}

\* TLS options chosen by whether a CA path is configured, whatever the tag.
tlsOptionsByCa(configuration) ==
  IF ~Falsy(configuration.RABBITMQ_TLS_CA)
    THEN {<<"ca", ReadFileSync(configuration.RABBITMQ_TLS_CA).value>>}
    ELSE {}

\* tlsOptions as connect receives it (lines 46, 52-54): {} or { ca: <content> },
\* a set of <<key, value>> pairs.
tlsOptions(configuration) ==
  IF configuration.nodeEnv # "dev"
    THEN {<<"ca", ReadFileSync(configuration.RABBITMQ_TLS_CA).value>>}
    ELSE {}

(***************************************************************************)
(* Buffer.from(data) (line 89).  A Uint8Array is copied byte for byte; a   *)
(* string, a sequence of UTF-16 code units, is written as UTF-8: a         *)
(* surrogate pair becomes one 4-byte sequence, a lone surrogate U+FFFD.    *)
(***************************************************************************)
IsHighSurrogate(u) == u >= 55296 /\ u <= 56319
IsLowSurrogate(u) == u >= 56320 /\ u <= 57343

Utf8OfCodePoint(c) ==
  IF c < 128 THEN <<c>>
  ELSE IF c < 2048 THEN <<192 + (c \div 64), 128 + (c % 64)>>
  ELSE IF c < 65536
    THEN <<224 + (c \div 4096), 128 + ((c \div 64) % 64), 128 + (c % 64)>>
  ELSE <<240 + (c \div 262144), 128 + ((c \div 4096) % 64),
         128 + ((c \div 64) % 64), 128 + (c % 64)>>

RECURSIVE Utf8Write(_)
Utf8Write(units) ==
  IF units = <<>> THEN <<>>
  ELSE LET u == Head(units)
           rest == Tail(units)
       IN IF IsHighSurrogate(u) /\ rest # <<>> /\ IsLowSurrogate(Head(rest))
            THEN Utf8OfCodePoint(65536 + (u - 55296) * 1024 + (Head(rest) - 56320))
                   \o Utf8Write(Tail(rest))
          ELSE IF IsHighSurrogate(u) \/ IsLowSurrogate(u)
            THEN Utf8OfCodePoint(65533) \o Utf8Write(rest)
          ELSE Utf8OfCodePoint(u) \o Utf8Write(rest)

\* Buffer.from(data, 'latin1'): one byte per code unit.
BufferFromLatin1(data) ==
  IF data.type = "bytes" THEN data.value
  ELSE [j \in DOMAIN data.value |-> data.value[j] % 256]

BufferFrom(data) ==
  IF data.type = "bytes" THEN data.value ELSE Utf8Write(data.value)

\* The payloads relay() is called with: Uint8Array | string (line 78).
Payloads ==
  { [type |-> "bytes", value |-> <<0, 233, 255>>],
    [type |-> "string", value |-> <<104, 233, 8364, 55357, 56832, 56832>>] }

(***************************************************************************)
(* The adapter and its collaborators.                                      *)
(***************************************************************************)
\* world: the adapter under study.  bare: a second adapter with the same
\* configuration that receives the same calls and the same broker results but is
\* never given a logger or a tracer.  compared: no logger or tracer call of
\* `world` has thrown so far (the comparison stops when one does).
VARIABLES world, bare, compared

vars == <<world, bare, compared>>

\* The calls a call of init() or relay() counts over its whole run.
Tallied ==
  { "amqplib.connect", "connection.createChannel", "channel.sendToQueue",
    "span.end", "transaction.end" }

\* An init() or relay() call when it starts (relay: `let apmTransaction = null`,
\* line 79).
NewCall(data) ==
  [ pc |-> "start", outcome |-> "pending", error |-> NoError, data |-> data,
    connection |-> Undefined, apmTransaction |-> "unset", span |-> "unset",
    tally |-> [callee \in Tallied |-> 0], trace |-> <<>> ]

\* The call makes one call on a collaborator: callee(args) returns or throws
\* `result`.
Traced(call, callee, args, result) ==
  [call EXCEPT
     !.trace = Append(@, [callee |-> callee, args |-> args, result |-> result]),
     !.tally = [c \in Tallied |-> IF c = callee THEN @[c] + 1 ELSE @[c]]]

\* A call that is suspended at an await: its locals, without the segment's trace.
Suspended(call) == [call EXCEPT !.trace = <<>>, !.data = NoValue]

\* What is left of a call once its promise has settled.
Retired(outcome) == [pc |-> "settled", outcome |-> outcome, error |-> NoError]

\* The state after `new RabbitMQRelayPlugin()` (lines 14-22).
NewPlugin(configuration) ==
  [ configuration |-> configuration,
    amqpConnection |-> Undefined,
    amqpChannel |-> Undefined,
    loggerservice |-> FALSE,
    apm |-> FALSE,
    connections |-> 0,
    channels |-> <<>>,
    inits |-> <<>>,
    relays |-> <<>>,
    last |-> [op |-> "new", index |-> 0, call |-> NewCall(NoValue)] ]

\* An init() that clears the handles when it fails.
initRanClears(w, i, call) ==
  [w EXCEPT !.inits[i] = IF call.pc = "settled" THEN Retired(call.outcome)
                                                 ELSE Suspended(call),
            !.amqpConnection = IF call.outcome = "rejected" THEN Undefined ELSE @,
            !.amqpChannel = IF call.outcome = "rejected" THEN Undefined ELSE @,
            !.last = [op |-> "init", index |-> i, call |-> call]]

\* Call i of init() has run a segment and is now `call`.
initRan(w, i, call) ==
  [w EXCEPT !.inits[i] = IF call.pc = "settled" THEN Retired(call.outcome)
                                                 ELSE Suspended(call),
            !.last = [op |-> "init", index |-> i, call |-> call]]

\* A relay() that drops the channel when it fails.
relayRanClears(w, k, call) ==
  [w EXCEPT !.relays[k] = IF call.pc = "settled" THEN Retired("settled")
                                                  ELSE Suspended(call),
            !.amqpChannel = IF call.pc = "rejecting" THEN Undefined ELSE @,
            !.last = [op |-> "relay", index |-> k, call |-> call]]

\* Call k of relay() has run a segment and is now `call`.
relayRan(w, k, call) ==
  [w EXCEPT !.relays[k] = IF call.pc = "settled" THEN Retired("settled")
                                                  ELSE Suspended(call),
            !.last = [op |-> "relay", index |-> k, call |-> call]]

\* this.loggerservice?.log(message, RabbitMQRelayPlugin.name)
loggerserviceLog(w, call, message, result) ==
  IF w.loggerservice
    THEN Traced(call, "logger.log", <<message, PluginName>>, result)
    ELSE call

\* An error report that is dropped: nothing reaches the logger.
loggerserviceErrorSilent(w, call, message, error, result) == call

\* this.loggerservice?.error(message, util.inspect(error), RabbitMQRelayPlugin.name);
\* result is what the logger does: "ok", or the error it throws.
loggerserviceError(w, call, message, error, result) ==
  IF w.loggerservice
    THEN Traced(call, "logger.error", <<message, error, PluginName>>, result)
    ELSE call

\* The error a catch block leaves with: the one it caught, unless its
\* logger.error call threw first.
Thrown(w, error, errorResult) ==
  IF w.loggerservice /\ errorResult # "ok" THEN errorResult ELSE error

\* The promise of an async call rejects with `error`.
rejects(call, error) ==
  [call EXCEPT !.pc = "settled", !.outcome = "rejected", !.error = error]

\* The promise of an async call resolves.
resolves(call) == [call EXCEPT !.pc = "settled", !.outcome = "resolved"]

\* init()'s catch block (lines 59-62): log the error, rethrow it; an exception
\* of logger.error (line 60) takes the place of the error.
initCatch(w, call, error, errorResult) ==
  rejects(loggerserviceError(w, call, "Failed to connect to RabbitMQ", error,
                             errorResult),
          Thrown(w, error, errorResult))

\* init(loggerService, apm) up to its first await (lines 42-56).  logResult is
\* what logger.log does: "ok", or the error it throws.
init(w, loggerService, apm, logResult, errorResult) ==
  LET i == Len(w.inits) + 1
      configuration == w.configuration
      \* lines 43-44
      w1 == [w EXCEPT !.loggerservice = loggerService,
                      !.apm = apm,
                      !.inits = Append(@, NewCall(NoValue))]
      \* line 45
      c1 == loggerserviceLog(w1, NewCall(NoValue),
                             "RabbitMQ Relay Plugin initialized", logResult)
      \* line 53
      file == ReadFileSync(configuration.RABBITMQ_TLS_CA)
      c2 == Traced(c1, "fs.readFileSync", <<configuration.RABBITMQ_TLS_CA, "utf-8">>,
                   IF file.ok THEN "ok" ELSE file.error)
      c3 == IF configuration.nodeEnv # "dev" THEN c2 ELSE c1
      \* line 56
      c4 == [Traced(c3, "amqplib.connect",
                    <<configuration.DESTINATION_TRANSPORT_URL,
                      tlsOptions(configuration)>>, "promise")
               EXCEPT !.pc = "connect"]
  IN IF w1.loggerservice /\ logResult # "ok"
       THEN initRan(w1, i, rejects(c1, logResult))
     ELSE IF configuration.nodeEnv # "dev" /\ Falsy(configuration.RABBITMQ_TLS_CA)
       THEN initRan(w1, i, initCatch(w1, c1, TlsCaRequiredError, errorResult))
     ELSE IF configuration.nodeEnv # "dev" /\ ~file.ok
       THEN initRan(w1, i, initCatch(w1, c2, file.error, errorResult))
     ELSE initRan(w1, i, c4)

\* An init() that stores the channel it is about to get before createChannel()
\* has resolved.
initAfterConnectEagerChannel(w, i, result, errorResult) ==
  LET c1 == Traced(w.inits[i], "await amqplib.connect", <<>>, result)
      connection == w.connections + 1
      w1 == [w EXCEPT !.connections = connection,
                      !.amqpConnection = connection,
                      !.amqpChannel = Len(w.channels) + 1]
      c2 == [Traced(c1, "connection.createChannel", <<w1.amqpConnection>>, "promise")
               EXCEPT !.connection = w1.amqpConnection,
                      !.pc = "createChannel"]
  IN IF result = "ok"
       THEN initRan(w1, i, c2)
       ELSE initRan(w, i, initCatch(w, c1, result, errorResult))

\* An init() whose TLS path stops at the connection: no channel is created.
initAfterConnectNoChannel(w, i, result, errorResult) ==
  LET c1 == Traced(w.inits[i], "await amqplib.connect", <<>>, result)
      connection == w.connections + 1
      w1 == [w EXCEPT !.connections = connection,
                      !.amqpConnection = connection]
      c2 == [Traced(c1, "connection.createChannel", <<w1.amqpConnection>>, "promise")
               EXCEPT !.connection = w1.amqpConnection,
                      !.pc = "createChannel"]
  IN IF result # "ok" THEN initRan(w, i, initCatch(w, c1, result, errorResult))
     ELSE IF w.configuration.nodeEnv # "dev"
       THEN initRan(w1, i, resolves(loggerserviceLog(w1, c1, "Connected to RabbitMQ", "ok")))
     ELSE initRan(w1, i, c2)

\* init() resumed after `await amqplib.connect(...)` settles (lines 56-57, 59-62):
\* store the connection and call createChannel() on it, or run the catch block.
\* result is "ok" or the error the promise rejects with.
initAfterConnect(w, i, result, errorResult) ==
  LET c1 == Traced(w.inits[i], "await amqplib.connect", <<>>, result)
      connection == w.connections + 1
      w1 == [w EXCEPT !.connections = connection,
                      !.amqpConnection = connection]
      c2 == [Traced(c1, "connection.createChannel", <<w1.amqpConnection>>, "promise")
               EXCEPT !.connection = w1.amqpConnection,
                      !.pc = "createChannel"]
  IN IF result = "ok"
       THEN initRan(w1, i, c2)
       ELSE initRan(w, i, initCatch(w, c1, result, errorResult))

\* init() resumed after `await this.amqpConnection.createChannel()` settles
\* (lines 57-62): store the channel, log success (the log call is inside the try).
initAfterCreateChannel(w, i, result, logResult, errorResult) ==
  LET c1 == Traced(w.inits[i], "await connection.createChannel", <<>>, result)
      channel == Len(w.channels) + 1
      w1 == [w EXCEPT !.channels = Append(@, w.inits[i].connection),
                      !.amqpChannel = channel]
      c2 == loggerserviceLog(w1, c1, "Connected to RabbitMQ", logResult)
  IN IF result # "ok" THEN initRan(w, i, initCatch(w, c1, result, errorResult))
     ELSE IF w1.loggerservice /\ logResult # "ok"
       THEN initRan(w1, i, initCatch(w1, c2, logResult, errorResult))
     ELSE initRan(w1, i, resolves(c2))

\* A finally block that is missing: the transaction is never ended.
relayFinallySkips(call) == call

\* A finally block that ends the transaction without looking at it.
relayFinallyUnguarded(call) == Traced(call, "transaction.end", <<>>, "ok")

\* relay()'s finally block (lines 94-98): end the transaction if there is one.
relayFinally(call) ==
  IF call.apmTransaction = "handle"
    THEN Traced(call, "transaction.end", <<>>, "ok")
    ELSE call

\* A catch block that needs the logger: without one the error it leaves with is
\* the TypeError of the call on undefined.
relayCatchNeedsLogger(w, call, error, errorResult) ==
  LET logged == loggerserviceError(w, call, "Failed to relay message to RabbitMQ",
                                   error, errorResult)
  IN IF ~w.loggerservice
       THEN [call EXCEPT !.pc = "rejecting", !.error = "TypeError"]
     ELSE IF errorResult # "ok"
       THEN rejects(relayFinally(logged), errorResult)
     ELSE [logged EXCEPT !.pc = "rejecting", !.error = error]

\* relay()'s catch block up to its await (lines 91-93): log the error, then
\* suspend on the rejected promise; the finally block runs when relay() resumes.
\* An exception of logger.error (line 92) leaves the catch block at once: the
\* finally block runs and relay() rejects with it, without suspending.
relayCatch(w, call, error, errorResult) ==
  LET logged == loggerserviceError(w, call, "Failed to relay message to RabbitMQ",
                                   error, errorResult)
  IN IF w.loggerservice /\ errorResult # "ok"
       THEN rejects(relayFinally(logged), errorResult)
       ELSE [logged EXCEPT !.pc = "rejecting", !.error = error]

\* A precondition inside the try block: the failure is logged before it leaves.
relayNotInitializedLogged(w, call) ==
  rejects(loggerserviceError(w, call, "Failed to relay message to RabbitMQ",
                             NotInitializedError, "ok"),
          NotInitializedError)

\* relay()'s precondition failing (lines 80-82): throw before anything else.
relayNotInitialized(w, call) == rejects(call, NotInitializedError)

\* relay(data) up to its return or its await (lines 78-98).  txResult and
\* spanResult are what apm.startTransaction and apm.startSpan do ("handle",
\* "null" or the error thrown), logResult and sendResult what logger.log and
\* sendToQueue do ("ok" or the error thrown), errorResult what logger.error does
\* in the catch block.
relay(w, data, txResult, spanResult, logResult, sendResult, errorResult) ==
  LET k == Len(w.relays) + 1
      w1 == [w EXCEPT !.relays = Append(@, NewCall(data))]
      c0 == NewCall(data)
      \* line 84
      c1 == IF w.apm
              THEN [Traced(c0, "apm.startTransaction", <<PluginName>>, txResult)
                      EXCEPT !.apmTransaction =
                               IF txResult \in {"handle", "null"} THEN txResult ELSE @]
              ELSE c0
      \* line 85
      c2 == IF w.apm
              THEN [Traced(c1, "apm.startSpan", <<"relay">>, spanResult)
                      EXCEPT !.span =
                               IF spanResult \in {"handle", "null"} THEN spanResult ELSE @]
              ELSE c1
      \* line 87
      c3 == loggerserviceLog(w, c2, "Relaying message to RabbitMQ", logResult)
      \* line 89
      c4 == Traced(c3, "channel.sendToQueue",
                   <<w.amqpChannel, w.configuration.PRODUCER_STREAM, BufferFrom(data)>>,
                   sendResult)
      \* line 90
      c5 == IF c4.span = "handle" THEN Traced(c4, "span.end", <<>>, "ok") ELSE c4
  IN IF w.amqpConnection = Undefined \/ w.amqpChannel = Undefined
       THEN relayRan(w1, k, relayNotInitialized(w, c0))
     ELSE IF w.apm /\ txResult \notin {"handle", "null"}
       THEN relayRan(w1, k, relayCatch(w, c1, txResult, errorResult))
     ELSE IF w.apm /\ spanResult \notin {"handle", "null"}
       THEN relayRan(w1, k, relayCatch(w, c2, spanResult, errorResult))
     ELSE IF w.loggerservice /\ logResult # "ok"
       THEN relayRan(w1, k, relayCatch(w, c3, logResult, errorResult))
     ELSE IF sendResult # "ok" THEN relayRan(w1, k, relayCatch(w, c4, sendResult, errorResult))
     ELSE relayRan(w1, k, resolves(relayFinally(c5)))

\* A relay() that tries the send again when it resumes after a failure.
relayAfterRejectResends(w, k) ==
  relayRan(w, k,
           rejects(relayFinally(Traced(w.relays[k], "channel.sendToQueue",
                                        <<w.amqpChannel, w.configuration.PRODUCER_STREAM,
                                          <<>>>>, w.relays[k].error)),
                   w.relays[k].error))

\* relay() resumed after `await Promise.reject(error)` (lines 93-98): the error
\* leaves the catch block, the finally block runs, the promise rejects.
relayAfterReject(w, k) ==
  relayRan(w, k, rejects(relayFinally(w.relays[k]), w.relays[k].error))

(***************************************************************************)
(* The state machine.                                                      *)
(***************************************************************************)
Init ==
  \E configuration \in Configurations :
    /\ world = NewPlugin(configuration)
    /\ bare = NewPlugin(configuration)
    /\ compared = TRUE

CallsMade == Len(world.inits) + Len(world.relays)

\* A logger or tracer call threw in the segment that ran last.
CollaboratorThrew(w) ==
  \E j \in DOMAIN w.last.call.trace :
    /\ w.last.call.trace[j].callee \in
         {"logger.log", "logger.error", "apm.startTransaction", "apm.startSpan"}
    /\ w.last.call.trace[j].result \notin {"ok", "handle", "null"}

\* The second adapter takes the same step, as long as the runs are compared.
BareRuns(next) ==
  /\ compared' = (compared /\ ~CollaboratorThrew(world'))
  /\ bare' = IF compared' THEN next ELSE NewPlugin(bare.configuration)

\* What a call on the logger or the tracer may do; a call that is not made (the
\* collaborator is absent, or an earlier call threw) has the one result `quiet`.
Results(made, results, quiet) == IF made THEN results ELSE {quiet}

\* The host calls init(loggerService?, apm?).
InitCall ==
  /\ CallsMade < MaxCalls
  /\ \E loggerService \in BOOLEAN, apm \in BOOLEAN :
     \E logResult \in Results(loggerService, {"ok", LoggerFault}, "ok") :
     \E errorResult \in Results(/\ loggerService
                                /\ logResult = "ok"
                                /\ world.configuration.nodeEnv # "dev"
                                /\ \/ Falsy(world.configuration.RABBITMQ_TLS_CA)
                                   \/ ~ReadFileSync(world.configuration.RABBITMQ_TLS_CA).ok,
                                {"ok", LoggerErrorFault}, "ok") :
       /\ world' = init(world, loggerService, apm, logResult, errorResult)
       /\ BareRuns(init(bare, FALSE, FALSE, "ok", "ok"))

\* amqplib.connect's promise settles for a suspended init().
ConnectSettles ==
  \E i \in DOMAIN world.inits :
    /\ world.inits[i].pc = "connect"
    /\ \E result \in {"ok"} \cup ConnectErrors :
       \E errorResult \in Results(world.loggerservice /\ result # "ok",
                                  {"ok", LoggerErrorFault}, "ok") :
         /\ world' = initAfterConnect(world, i, result, errorResult)
         /\ BareRuns(IF i \in DOMAIN bare.inits /\ bare.inits[i].pc = "connect"
                       THEN initAfterConnect(bare, i, result, "ok")
                       ELSE bare)

\* createChannel's promise settles for a suspended init().
CreateChannelSettles ==
  \E i \in DOMAIN world.inits :
    /\ world.inits[i].pc = "createChannel"
    /\ \E result \in {"ok"} \cup CreateChannelErrors :
       \E logResult \in Results(world.loggerservice /\ result = "ok",
                                {"ok", LoggerFault}, "ok") :
       \E errorResult \in Results(world.loggerservice /\ (result # "ok" \/ logResult # "ok"),
                                  {"ok", LoggerErrorFault}, "ok") :
         /\ world' = initAfterCreateChannel(world, i, result, logResult, errorResult)
         /\ BareRuns(IF i \in DOMAIN bare.inits /\ bare.inits[i].pc = "createChannel"
                       THEN initAfterCreateChannel(bare, i, result, "ok", "ok")
                       ELSE bare)

\* relay() gets past its precondition (lines 80-82) on this adapter.
Initialized(w) == w.amqpConnection # Undefined /\ w.amqpChannel # Undefined

\* The host calls relay(data).
RelayCalled ==
  /\ CallsMade < MaxCalls
  /\ \E data \in Payloads :
     \E txResult \in Results(Initialized(world) /\ world.apm,
                             {"handle", "null", TracerFault}, "null") :
     \E spanResult \in Results(Initialized(world) /\ world.apm /\ txResult # TracerFault,
                               {"handle", "null", TracerFault}, "null") :
     \E logResult \in Results(/\ Initialized(world)
                              /\ world.loggerservice
                              /\ TracerFault \notin {txResult, spanResult},
                              {"ok", LoggerFault}, "ok") :
     \E sendResult \in Results(/\ Initialized(world)
                               /\ TracerFault \notin {txResult, spanResult}
                               /\ logResult = "ok",
                               {"ok"} \cup SendErrors, "ok") :
     \E errorResult \in Results(/\ Initialized(world)
                                /\ world.loggerservice
                                /\ \/ TracerFault \in {txResult, spanResult}
                                   \/ logResult # "ok"
                                   \/ sendResult # "ok",
                                {"ok", LoggerErrorFault}, "ok") :
       /\ world' = relay(world, data, txResult, spanResult, logResult, sendResult,
                         errorResult)
       /\ BareRuns(relay(bare, data, "null", "null", "ok", sendResult, "ok"))

\* A relay() suspended in its catch block resumes.
RelayRejects ==
  \E k \in DOMAIN world.relays :
    /\ world.relays[k].pc = "rejecting"
    /\ world' = relayAfterReject(world, k)
    /\ BareRuns(IF k \in DOMAIN bare.relays /\ bare.relays[k].pc = "rejecting"
                  THEN relayAfterReject(bare, k)
                  ELSE bare)

Next ==
  \/ InitCall
  \/ ConnectSettles
  \/ CreateChannelSettles
  \/ RelayCalled
  \/ RelayRejects

Spec == Init /\ [][Next]_vars
(***************************************************************************)
(* Properties.                                                             *)
(***************************************************************************)
\* The calls to `callee` in the segment that ran last.
CallsTo(w, callee) == SelectSeq(w.last.call.trace, LAMBDA c : c.callee = callee)

\* How often the call that ran last has called `callee` since it started.
Made(w, callee) == w.last.call.tally[callee]

NoInitResolved == \A i \in DOMAIN world.inits : world.inits[i].outcome # "resolved"

SomeInitResolved == \E i \in DOMAIN world.inits : world.inits[i].outcome = "resolved"

\* The segment that ran last is the one a call of init() starts with.
InitStarted(w) ==
  /\ w.last.op = "init"
  /\ CallsTo(w, "await amqplib.connect") = <<>>
  /\ CallsTo(w, "await connection.createChannel") = <<>>

\* C1: as long as no init() call has resolved, every relay() rejects with the
\* not-initialized error and never calls sendToQueue.
C1_RelayRejectsUntilInitResolves ==
  (world.last.op = "relay" /\ NoInitResolved) =>
    /\ world.last.call.outcome = "rejected"
    /\ world.last.call.error = NotInitializedError
    /\ Made(world, "channel.sendToQueue") = 0

\* A connect promise that rejects with e makes init() reject with e.
ConnectFailureRejectsInit(w) ==
  \A j \in DOMAIN w.last.call.trace :
    (w.last.call.trace[j].callee = "await amqplib.connect"
       /\ w.last.call.trace[j].result # "ok") =>
      /\ w.last.op = "init"
      /\ w.last.call.outcome = "rejected"
      /\ w.last.call.error = w.last.call.trace[j].result

\* A sendToQueue that throws e leaves relay() unsettled, on its way to reject
\* with e.
SendFailureCaught(w) ==
  \A j \in DOMAIN w.last.call.trace :
    (w.last.call.trace[j].callee = "channel.sendToQueue"
       /\ w.last.call.trace[j].result # "ok") =>
      /\ w.last.op = "relay"
      /\ w.last.call.pc = "rejecting"
      /\ w.last.call.outcome = "pending"
      /\ w.last.call.error = w.last.call.trace[j].result

\* A relay() on its way to reject with e stays so until it rejects with e.
RejectionKept ==
  \A k \in DOMAIN world.relays :
    world.relays[k].pc = "rejecting" =>
      \/ world'.relays[k] = world.relays[k]
      \/ /\ world'.last.op = "relay"
         /\ world'.last.index = k
         /\ world'.last.call.outcome = "rejected"
         /\ world'.last.call.error = world.relays[k].error

\* C2: failures are propagated: when connect rejects with e, init() rejects
\* with e; when sendToQueue throws e, relay() rejects with e and never resolves.
C2_FailuresPropagate ==
  [][/\ ConnectFailureRejectsInit(world')
     /\ SendFailureCaught(world')
     /\ RejectionKept]_vars

\* C3: when a relay() that passed the precondition settles, a span handle and a
\* transaction handle have each had end() called exactly once.
C3_HandlesEndedOnce ==
  (/\ world.last.op = "relay"
   /\ world.last.call.pc = "settled"
   /\ world.last.call.error # NotInitializedError) =>
    /\ world.last.call.span = "handle" => Made(world, "span.end") = 1
    /\ world.last.call.apmTransaction = "handle" => Made(world, "transaction.end") = 1

\* C4: the connection path follows the environment tag alone: connect is only
\* called by the segment that suspends on it, once, with the configured URL, and
\* with {} when nodeEnv is 'dev' (whatever RABBITMQ_TLS_CA is), with the content
\* of the CA file as `ca` otherwise; an init() whose opening log call and CA
\* read succeed makes that call.
C4_PathSelection ==
  LET connects == CallsTo(world, "amqplib.connect")
      configuration == world.configuration
      dev == configuration.nodeEnv = "dev"
  IN /\ Len(connects) =
          IF world.last.op = "init" /\ world.last.call.pc = "connect" THEN 1 ELSE 0
     /\ \A j \in DOMAIN connects :
          /\ connects[j].args[1] = "amqp://localhost:5672"
          /\ dev => connects[j].args[2] = {}
          /\ ~dev => /\ configuration.RABBITMQ_TLS_CA = "ca-file-path.pem"
                     /\ connects[j].args[2] = {<<"ca", "CA-FAKE-CONTENT">>}
                     /\ Len(CallsTo(world, "fs.readFileSync")) = 1
     /\ (/\ InitStarted(world)
         /\ dev \/ configuration.RABBITMQ_TLS_CA = "ca-file-path.pem"
         /\ \A j \in DOMAIN world.last.call.trace :
              world.last.call.trace[j].result \in {"ok", "promise"})
          => world.last.call.pc = "connect"

C4_Witness ==
  /\ world.configuration.nodeEnv = "dev"
  /\ world.configuration.RABBITMQ_TLS_CA = "ca-file-path.pem"
  /\ world.last.op = "init"
  /\ Len(CallsTo(world, "amqplib.connect")) = 1

\* C5: with nodeEnv not 'dev' and RABBITMQ_TLS_CA absent, every init() call
\* rejects with the TLS-certificate error, calls neither connect nor
\* createChannel, and leaves both handles as they were (never set).
C5_MissingCaRejectsInit ==
  (/\ world.last.op = "init"
   /\ world.configuration.nodeEnv # "dev"
   /\ world.configuration.RABBITMQ_TLS_CA = NoValue) =>
    /\ world.last.call.outcome = "rejected"
    /\ world.last.call.error = TlsCaRequiredError
    /\ Made(world, "amqplib.connect") = 0
    /\ Made(world, "connection.createChannel") = 0
    /\ world.amqpConnection = Undefined
    /\ world.amqpChannel = Undefined

\* A logger.log or tracer call threw in the segment that ran last: the try
\* block was left before the send.
ThrewBeforeSend(w) ==
  \E j \in DOMAIN w.last.call.trace :
    /\ w.last.call.trace[j].callee \in
         {"logger.log", "apm.startTransaction", "apm.startSpan"}
    /\ w.last.call.trace[j].result \in {LoggerFault, TracerFault}

\* C6: in either path an init() that resolves has called connect once and then
\* createChannel once on the connection connect returned, has stored both
\* handles (the channel being the one created) and has logged the success
\* message; and once an init() has resolved, relay() passes the precondition:
\* it calls sendToQueue unless a tracer or logger call throws first.
C6_ResolvedInitIsUsable ==
  /\ (world.last.op = "init" /\ world.last.call.outcome = "resolved") =>
       /\ Made(world, "amqplib.connect") = 1
       /\ Made(world, "connection.createChannel") = 1
       /\ world.last.call.connection \in 1..world.connections
       /\ world.amqpConnection # Undefined
       /\ world.amqpChannel = Len(world.channels)
       /\ world.amqpChannel # Undefined
       /\ world.channels[world.amqpChannel] = world.last.call.connection
       /\ world.loggerservice =>
            /\ world.last.call.trace # <<>>
            /\ world.last.call.trace[Len(world.last.call.trace)] =
                 [callee |-> "logger.log",
                  args |-> <<"Connected to RabbitMQ", PluginName>>,
                  result |-> "ok"]
  /\ (world.last.op = "relay" /\ SomeInitResolved) =>
       /\ world.last.call.error # NotInitializedError
       /\ (world.last.call.error \notin {LoggerFault, TracerFault}
             /\ ~ThrewBeforeSend(world)) =>
            Made(world, "channel.sendToQueue") = 1

C6_Witness ==
  /\ world.configuration.nodeEnv = "production"
  /\ SomeInitResolved
  /\ world.last.op = "relay"
  /\ world.last.call.outcome = "resolved"
  /\ Made(world, "channel.sendToQueue") = 1

\* C7: a relay() that fails the precondition calls nothing: no logger.log, no
\* logger.error, no startTransaction, no startSpan, no broker call, also when a
\* logger and a tracer are in place.
C7_NotInitializedHasNoEffect ==
  (world.last.op = "relay" /\ world.last.call.error = NotInitializedError) =>
    /\ world.last.call.trace = <<>>
    /\ \A callee \in Tallied : Made(world, callee) = 0
    /\ world.last.call.apmTransaction = "unset"
    /\ world.last.call.span = "unset"
    /\ world.last.call.outcome = "rejected"

C7_Witness ==
  /\ world.last.op = "relay"
  /\ world.last.call.error = NotInitializedError
  /\ world.loggerservice
  /\ world.apm
  /\ \E i \in DOMAIN world.inits : world.inits[i].outcome = "rejected"

\* The code points a well-formed UTF-8 byte sequence stands for (<<-1>> where it
\* is malformed).
RECURSIVE Utf8Decode(_)
Utf8Decode(bytes) ==
  IF bytes = <<>> THEN <<>>
  ELSE LET b == Head(bytes)
           n == IF b < 128 THEN 1 ELSE IF b < 224 THEN 2 ELSE IF b < 240 THEN 3 ELSE 4
           low(j) == bytes[j] - 128
           point == IF n = 1 THEN b
                    ELSE IF n = 2 THEN (b - 192) * 64 + low(2)
                    ELSE IF n = 3 THEN (b - 224) * 4096 + low(2) * 64 + low(3)
                    ELSE (b - 240) * 262144 + low(2) * 4096 + low(3) * 64 + low(4)
       IN IF \/ Len(bytes) < n
             \/ b \in 128..191
             \/ b > 247
             \/ \E j \in 2..n : bytes[j] \notin 128..191
            THEN <<-1>>
            ELSE <<point>> \o Utf8Decode(SubSeq(bytes, n + 1, Len(bytes)))

\* The Unicode scalar values of a string of UTF-16 code units: a surrogate pair
\* is one supplementary code point, an unpaired surrogate reads as U+FFFD.
RECURSIVE ScalarValues(_)
ScalarValues(units) ==
  IF units = <<>> THEN <<>>
  ELSE IF /\ Len(units) >= 2
          /\ units[1] \in 55296..56319
          /\ units[2] \in 56320..57343
    THEN <<65536 + (units[1] - 55296) * 1024 + (units[2] - 56320)>>
           \o ScalarValues(SubSeq(units, 3, Len(units)))
  ELSE IF units[1] \in 55296..57343
    THEN <<65533>> \o ScalarValues(Tail(units))
  ELSE <<units[1]>> \o ScalarValues(Tail(units))

\* C8: a relay() on an initialized adapter whose logger and tracer calls do not
\* throw calls sendToQueue exactly once, with PRODUCER_STREAM and with the
\* payload's bytes: a byte sequence unchanged, a string in UTF-8.
C8_PayloadFidelity ==
  (/\ world.last.op = "relay"
   /\ world.last.call.error \notin {NotInitializedError, LoggerFault, TracerFault}
   /\ ~ThrewBeforeSend(world)) =>
    LET sends == CallsTo(world, "channel.sendToQueue")
        data == world.last.call.data
    IN /\ Made(world, "channel.sendToQueue") = 1
       /\ (\/ world.last.call.pc = "rejecting"
           \/ world.last.call.outcome = "resolved"
           \/ world.last.call.error = LoggerErrorFault) =>
            /\ Len(sends) = 1
            /\ Len(sends[1].args) = 3
            /\ sends[1].args[1] = world.amqpChannel
            /\ sends[1].args[2] = "test-queue"
            /\ data.type = "bytes" => sends[1].args[3] = data.value
            /\ data.type = "string" =>
                 Utf8Decode(sends[1].args[3]) = ScalarValues(data.value)

C8_Witness ==
  /\ world.last.op = "relay"
  /\ world.last.call.outcome = "resolved"
  /\ world.last.call.data.type = "string"
  /\ world.loggerservice
  /\ world.apm
  /\ CallsTo(world, "channel.sendToQueue")[1].args[3] =
       <<104, 195, 169, 226, 130, 172, 240, 159, 152, 128, 239, 191, 189>>

\* What a call that does not return normally throws.
Faults == {LoggerFault, LoggerErrorFault, TracerFault} \cup SendErrors

\* C9: a relay() on an initialized adapter in which every call made returns
\* normally (startTransaction and startSpan each return a handle or null,
\* sendToQueue returns) calls sendToQueue exactly once and resolves, and calls
\* end() on the span and on the transaction exactly when it is a handle, never
\* when it is null or absent.
C9_NullHandlesTolerated ==
  (/\ world.last.op = "relay"
   /\ world.amqpConnection # Undefined
   /\ world.amqpChannel # Undefined
   /\ ~(world.last.call.pc = "settled" /\ world.last.call.outcome = "rejected")
   /\ \A j \in DOMAIN world.last.call.trace :
        world.last.call.trace[j].result \notin Faults) =>
    /\ Made(world, "channel.sendToQueue") = 1
    /\ Len(CallsTo(world, "channel.sendToQueue")) = 1
    /\ world.last.call.outcome = "resolved"
    /\ Made(world, "span.end") = (IF world.last.call.span = "handle" THEN 1 ELSE 0)
    /\ Made(world, "transaction.end") =
         (IF world.last.call.apmTransaction = "handle" THEN 1 ELSE 0)
    /\ world.apm =>
         /\ world.last.call.apmTransaction \in {"handle", "null"}
         /\ world.last.call.span \in {"handle", "null"}

C9_Witness ==
  /\ world.last.op = "relay"
  /\ world.apm
  /\ world.last.call.apmTransaction = "null"
  /\ world.last.call.span = "null"
  /\ world.last.call.outcome = "resolved"
  /\ Made(world, "channel.sendToQueue") = 1
  /\ Made(world, "span.end") = 0
  /\ Made(world, "transaction.end") = 0

\* The calls on the broker client in the segment that ran last.
BrokerCalls(w) ==
  SelectSeq(w.last.call.trace,
            LAMBDA c : c.callee \in {"amqplib.connect", "await amqplib.connect",
                                     "connection.createChannel",
                                     "await connection.createChannel",
                                     "channel.sendToQueue"})

\* C10: as long as no logger or tracer call has thrown, the adapter whose init()
\* calls are given loggers and tracers and the adapter whose init() calls are
\* given neither, run on the same configuration through the same calls and the
\* same broker behaviour, agree on the outcome of every call, on the connect,
\* createChannel and sendToQueue calls made, and on the stored handles.
C10_CollaboratorsTransparent ==
  compared =>
    /\ world.amqpConnection = bare.amqpConnection
    /\ world.amqpChannel = bare.amqpChannel
    /\ world.connections = bare.connections
    /\ world.channels = bare.channels
    /\ Len(world.inits) = Len(bare.inits)
    /\ Len(world.relays) = Len(bare.relays)
    /\ \A i \in DOMAIN world.inits :
         /\ world.inits[i].pc = bare.inits[i].pc
         /\ world.inits[i].outcome = bare.inits[i].outcome
         /\ world.inits[i].error = bare.inits[i].error
    /\ \A k \in DOMAIN world.relays :
         /\ world.relays[k].pc = bare.relays[k].pc
         /\ world.relays[k].error = bare.relays[k].error
    /\ world.last.op = bare.last.op
    /\ world.last.index = bare.last.index
    /\ world.last.call.pc = bare.last.call.pc
    /\ world.last.call.outcome = bare.last.call.outcome
    /\ world.last.call.error = bare.last.call.error
    /\ BrokerCalls(world) = BrokerCalls(bare)
    /\ \A callee \in {"amqplib.connect", "connection.createChannel",
                      "channel.sendToQueue"} :
         Made(world, callee) = Made(bare, callee)

C10_Witness ==
  /\ compared
  /\ world.loggerservice
  /\ world.apm
  /\ ~bare.loggerservice
  /\ ~bare.apm
  /\ world.last.op = "relay"
  /\ world.last.call.outcome = "resolved"
  /\ world.last.call.span = "handle"
  /\ world.last.call.apmTransaction = "handle"
  /\ \E i \in DOMAIN world.inits : world.inits[i].outcome = "rejected"

\* The calls that report a failure to the logger in the segment that ran last.
ErrorsLogged(w) == CallsTo(w, "logger.error")

\* The awaited broker call of init() that was rejected in the segment that ran
\* last, if any.
RejectedAwaits(w) ==
  SelectSeq(w.last.call.trace,
            LAMBDA c : /\ c.callee \in {"await amqplib.connect",
                                        "await connection.createChannel"}
                       /\ c.result # "ok")

\* The sendToQueue call that threw in the segment that ran last, if any.
ThrownSends(w) ==
  SelectSeq(w.last.call.trace,
            LAMBDA c : c.callee = "channel.sendToQueue" /\ c.result # "ok")

\* C11: with a logger in place, an init() that rejects because connect or
\* createChannel rejected, and a relay() that rejects because sendToQueue
\* threw, makes exactly one logger.error call for that failure, and makes it
\* before its promise rejects (the call is the last one the failing segment
\* makes; the segment in which relay() then rejects logs nothing).
C11_FailureLoggedOnce ==
  LET trace == world.last.call.trace
      logged == ErrorsLogged(world)
  IN /\ (world.loggerservice /\ world.last.op = "init" /\ RejectedAwaits(world) # <<>>) =>
          /\ Len(RejectedAwaits(world)) = 1
          /\ Len(logged) = 1
          /\ logged[1].args = <<"Failed to connect to RabbitMQ",
                                RejectedAwaits(world)[1].result, PluginName>>
          /\ logged[1].result \in {"ok", LoggerErrorFault}
          /\ trace[Len(trace)].callee = "logger.error"
          /\ world.last.call.outcome = "rejected"
          /\ world.last.call.error =
               IF logged[1].result = "ok" THEN RejectedAwaits(world)[1].result
                                          ELSE LoggerErrorFault
     /\ (world.loggerservice /\ world.last.op = "relay" /\ ThrownSends(world) # <<>>) =>
          /\ Len(ThrownSends(world)) = 1
          /\ Len(logged) = 1
          /\ logged[1].args = <<"Failed to relay message to RabbitMQ",
                                ThrownSends(world)[1].result, PluginName>>
          /\ logged[1].result \in {"ok", LoggerErrorFault}
          /\ \E j \in DOMAIN trace :
               /\ trace[j].callee = "logger.error"
               /\ j > 1
               /\ trace[j - 1].callee = "channel.sendToQueue"
               /\ \A later \in (j + 1)..Len(trace) : trace[later].callee = "transaction.end"
          /\ logged[1].result = "ok" =>
               /\ trace[Len(trace)].callee = "logger.error"
               /\ world.last.call.outcome = "pending"
               /\ world.last.call.pc = "rejecting"
          /\ logged[1].result # "ok" =>
               /\ world.last.call.outcome = "rejected"
               /\ world.last.call.error = LoggerErrorFault
     /\ (/\ world.last.op = "relay"
         /\ world.last.call.outcome = "rejected"
         /\ world.last.call.error \in SendErrors) =>
          logged = <<>>

C11_Witness ==
  /\ world.loggerservice
  /\ world.last.op = "relay"
  /\ ThrownSends(world) # <<>>
  /\ Len(ErrorsLogged(world)) = 1
  /\ \E i \in DOMAIN world.inits : world.inits[i].outcome = "rejected"

\* C12: sends are submitted in the order relay() is invoked: a sendToQueue call
\* is only ever made by the segment that the most recently invoked relay()
\* starts with (never by a relay() that resumes later), at most once, and it
\* carries that invocation's payload; so the k-th send is the k-th invocation
\* that reached the send, also while earlier relay() calls are still unsettled.
C12_SendsInInvocationOrder ==
  LET sends == CallsTo(world, "channel.sendToQueue")
      data == world.last.call.data
  IN sends # <<>> =>
       /\ Len(sends) = 1
       /\ world.last.op = "relay"
       /\ world.last.index = Len(world.relays)
       /\ \/ world.last.call.pc = "rejecting"
          \/ world.last.call.outcome = "resolved"
          \/ world.last.call.error = LoggerErrorFault
       /\ Made(world, "channel.sendToQueue") = 1
       /\ data.type = "bytes" => sends[1].args[3] = data.value
       /\ data.type = "string" => Utf8Decode(sends[1].args[3]) = ScalarValues(data.value)

C12_Witness ==
  /\ Len(world.relays) = 2
  /\ world.relays[1].pc = "rejecting"
  /\ world.relays[1].tally["channel.sendToQueue"] = 1
  /\ world.last.op = "relay"
  /\ world.last.index = 2
  /\ world.last.call.outcome = "resolved"
  /\ Len(CallsTo(world, "channel.sendToQueue")) = 1

\* C13: whenever both handles are set, the stored channel is one that
\* createChannel() returned on the stored connection.
C13_ChannelOfStoredConnection ==
  (world.amqpConnection # Undefined /\ world.amqpChannel # Undefined) =>
    /\ world.amqpChannel \in DOMAIN world.channels
    /\ world.channels[world.amqpChannel] = world.amqpConnection

\* A later init() whose connect succeeded and whose createChannel was rejected
\* has settled, and the channel of an earlier connection is still stored.
C13_StaleChannelAfterRejectedInit ==
  /\ world.last.op = "init"
  /\ world.last.call.outcome = "rejected"
  /\ world.last.call.error \in CreateChannelErrors
  /\ world.amqpChannel # Undefined
  /\ world.channels[world.amqpChannel] # world.amqpConnection

\* C14: relay() only reads the handles: a step of a relay() call (its start, on
\* any path, or its resumption after a caught failure) leaves amqpConnection,
\* amqpChannel and the configuration as they were, and creates no connection
\* and no channel; the handles are only ever written by a step of init().
C14_RelayFrame ==
  [][/\ world'.relays # world.relays =>
          /\ world'.last.op = "relay"
          /\ world'.amqpConnection = world.amqpConnection
          /\ world'.amqpChannel = world.amqpChannel
          /\ world'.configuration = world.configuration
          /\ world'.connections = world.connections
          /\ world'.channels = world.channels
     /\ (\/ world'.amqpConnection # world.amqpConnection
         \/ world'.amqpChannel # world.amqpChannel) =>
          /\ world'.last.op = "init"
          /\ world'.inits # world.inits
          /\ world'.relays = world.relays
     /\ world'.configuration = world.configuration]_vars

C14_Witness ==
  /\ world.last.op = "relay"
  /\ world.last.call.outcome = "rejected"
  /\ world.last.call.error = LoggerFault
  /\ world.amqpConnection # Undefined
  /\ world.amqpChannel # Undefined
  /\ Len(world.relays) = 2

\* The segment that ran last is an init() resuming with a createChannel() that
\* succeeded (so its connect succeeded too).
ChannelCreated(w) ==
  /\ w.last.op = "init"
  /\ \E j \in DOMAIN w.last.call.trace :
       /\ w.last.call.trace[j].callee = "await connection.createChannel"
       /\ w.last.call.trace[j].result = "ok"

\* C15: the not-initialized condition is recoverable: an init() whose connect
\* and createChannel both succeed on an adapter that had no channel until then
\* (relay() would have failed with the not-initialized error) resolves with
\* both handles set, and from then on relay() passes the precondition.
C15_InitRecovers ==
  /\ (ChannelCreated(world) /\ Len(world.channels) = 1) =>
       /\ world.last.call.outcome = "resolved"
       /\ world.amqpConnection # Undefined
       /\ world.amqpChannel # Undefined
  /\ (world.last.op = "relay" /\ Len(world.channels) >= 1) =>
       world.last.call.error # NotInitializedError

\* C16: a relay() that got a transaction handle from startTransaction calls
\* end() on it exactly once, as the last thing it does before its promise
\* settles (so after the send attempt, if there was one), whether sendToQueue
\* returned or threw and whether startSpan or logger.log threw; until then the
\* transaction is open, and a relay() without a handle never calls end().
C16_TransactionEndedOnce ==
  LET call == world.last.call
  IN /\ world.last.op = "relay" =>
          /\ (call.apmTransaction = "handle" /\ call.pc = "settled") =>
               /\ Made(world, "transaction.end") = 1
               /\ call.trace # <<>>
               /\ call.trace[Len(call.trace)].callee = "transaction.end"
               /\ Len(CallsTo(world, "transaction.end")) = 1
          /\ (call.apmTransaction = "handle" /\ call.pc # "settled") =>
               /\ call.pc = "rejecting"
               /\ Made(world, "transaction.end") = 0
          /\ call.apmTransaction # "handle" => Made(world, "transaction.end") = 0
     /\ \A k \in DOMAIN world.relays :
          world.relays[k].pc = "rejecting" =>
            world.relays[k].tally["transaction.end"] = 0

C16_Witness ==
  /\ world.last.op = "relay"
  /\ world.last.call.apmTransaction = "handle"
  /\ world.last.call.outcome = "rejected"
  /\ world.last.call.error = TracerFault
  /\ Made(world, "transaction.end") = 1
  /\ Made(world, "channel.sendToQueue") = 0

\* Some init() has been called and every init() called so far is suspended at
\* one of its awaits.
EveryInitPending ==
  /\ world.inits # <<>>
  /\ \A i \in DOMAIN world.inits : world.inits[i].pc \in {"connect", "createChannel"}

\* C17: a relay() invoked while init() is still pending (awaiting connect, or
\* awaiting createChannel after connect resolved) rejects with the
\* not-initialized error without calling sendToQueue; and sendToQueue is only
\* ever called on the stored channel, which a resolved createChannel produced.
C17_RelayDuringPendingInit ==
  /\ (world.last.op = "relay" /\ EveryInitPending) =>
       /\ world.last.call.outcome = "rejected"
       /\ world.last.call.error = NotInitializedError
       /\ Made(world, "channel.sendToQueue") = 0
       /\ world.amqpChannel = Undefined
  /\ \A j \in DOMAIN world.last.call.trace :
       world.last.call.trace[j].callee = "channel.sendToQueue" =>
         /\ world.last.call.trace[j].args[1] # Undefined
         /\ world.last.call.trace[j].args[1] = world.amqpChannel
         /\ world.last.call.trace[j].args[1] \in DOMAIN world.channels

C17_Witness ==
  /\ world.last.op = "relay"
  /\ Len(world.inits) = 1
  /\ world.inits[1].pc = "createChannel"
  /\ world.amqpConnection # Undefined
  /\ world.last.call.error = NotInitializedError

\* C18: initialization is monotonic: a set channel handle comes with a set
\* connection handle; once an init() has resolved both handles are set in every
\* later state, whatever later init() calls do; and relay() then passes the
\* precondition and calls sendToQueue unless a tracer or logger call throws.
C18_InitializationMonotonic ==
  /\ world.amqpChannel # Undefined => world.amqpConnection # Undefined
  /\ SomeInitResolved =>
       /\ world.amqpConnection # Undefined
       /\ world.amqpChannel # Undefined
       /\ world.last.op = "relay" =>
            /\ world.last.call.error # NotInitializedError
            /\ ~CollaboratorThrew(world) /\ world.last.call.pc # "settled" =>
                 Len(CallsTo(world, "channel.sendToQueue")) = 1
            /\ world.last.call.outcome = "resolved" =>
                 Len(CallsTo(world, "channel.sendToQueue")) = 1

C18_Witness ==
  /\ Len(world.inits) = 2
  /\ world.inits[1].outcome = "resolved"
  /\ world.inits[2].outcome = "rejected"
  /\ world.amqpConnection = 2
  /\ world.channels = <<1>>
  /\ world.last.op = "relay"
  /\ world.last.call.outcome = "resolved"
  /\ Len(CallsTo(world, "channel.sendToQueue")) = 1
====
